---- MODULE Spec2Model ----
(***************************************************************************)
(* A model of the alignment strategies of libEM/aligner.cpp (EMAN2).       *)
(*                                                                         *)
(* One behaviour is one call of Aligner::align.  The caller's images, the  *)
(* configuration bag, the images the call allocates and releases, the      *)
(* primitive operations it has performed so far and its outcome are the    *)
(* state.  Pixel values are not modelled: every value that the code reads  *)
(* from pixel data (a correlation peak, a comparator score, a footprint    *)
(* maximum) is an input of the action, drawn from a bounded set.           *)
(*                                                                         *)
(* Units.  Translations are kept in half pixels (a float that the code     *)
(* holds is always a multiple of 0.5 here), so that the halving of the     *)
(* self-alignment convention is exact.  Rotational-footprint angles are    *)
(* kept in units of 180/RfpNx degrees, RfpNx being the angular length of   *)
(* the footprint, so that peak_index * 180 / RfpNx is exact.               *)
(***************************************************************************)
EXTENDS Integers, Sequences, FiniteSets, TLC

VARIABLES
    aligner,    \* name of the strategy whose align is running ("" before the call)
    pc,         \* position of the call: "idle", a stage of a search, or "returned"
    this_img,   \* the caller's moving image, as it is now
    to,         \* the caller's reference image, as it is now (NullImg: none given)
    params,     \* the aligner's configuration bag (a function key -> value)
    outcome,    \* "none" | "image" | "null" | the exception thrown | an outcome of UB
    result,     \* the image align returned (NullImg when none)
    live,       \* images allocated inside the call and not released
    log,        \* the primitive operations the call has performed
    branch,     \* two-branch aligners: [cmp1, cmp2, taken], taken 1 or 2 (0: none)
    found,      \* translational: [maxshift, peak], the search bounds and the peak found
    srch        \* the state of an exhaustive search (loop variables, best so far)

vars == <<aligner, pc, this_img, to, params, outcome, result, live, log, branch, found, srch>>

----------------------------------------------------------------------------
(* Bounds of the model *)

\* image extents are drawn from 1..MaxExtent
MaxExtent == 9
\* configured maxshift values are drawn from 0..MaxShiftCfg (and "not configured")
MaxShiftCfg == 3
\* angular length of a rotational footprint (this_img_rfp->get_xsize())
RfpNx == 2
\* comparator scores are drawn from 0..MaxScore
MaxScore == 1
\* extents of the images given to the 2D strategies are drawn from 2..MaxExtent2D
MaxExtent2D == 4
\* the index of a correlation maximum over the angular axis is drawn from 0..MaxAngIdx
MaxAngIdx == 1

\* number of half pixels in a pixel (the unit of translations)
HalfPx == 2

----------------------------------------------------------------------------
(* Images, transforms, configuration bags *)

\* Transform(): the identity; has = FALSE marks "no transform stored under the key".
\* The rotation is alpha * 180 / den degrees.
\* pre marks a translation set by set_pre_trans.
NoXf == [has |-> FALSE, alpha |-> 0, den |-> 1, tx |-> 0, ty |-> 0, tz |-> 0,
         mirror |-> FALSE, pre |-> FALSE]

IdentityXf == [NoXf EXCEPT !.has = TRUE]

\* the null EMData pointer
NullImg == [nx |-> 0, ny |-> 0, nz |-> 0, rev |-> 0, origin |-> "null",
            a2d |-> NoXf, a3d |-> NoXf, cmpval |-> 0, flips |-> 0,
     turns |-> 0, dot |-> << >>]

\* an image the caller made: rev counts in-place modifications of its samples,
\* origin names the primitive that created the object
CallerImg(nx, ny, nz) ==
    [nx |-> nx, ny |-> ny, nz |-> nz, rev |-> 0, origin |-> "caller",
     a2d |-> NoXf, a3d |-> NoXf, cmpval |-> 0, flips |-> 0,
     turns |-> 0, dot |-> << >>]

\* an image the caller made that carries the transform of an earlier alignment against
\* a mirrored reference under xform.align2d
CarriedImg(nx, ny, nz) ==
    [CallerImg(nx, ny, nz) EXCEPT !.a2d = [IdentityXf EXCEPT !.mirror = TRUE]]

\* a 2D image the caller made whose samples are 0 but for the one at (p[1], p[2]);
\* dot = << >> on every other image: its samples are not modelled
DotImg(nx, ny, p) == [CallerImg(nx, ny, 1) EXCEPT !.dot = p]

HasDot(img) == img.dot # << >>

IsNull(img) == img.origin = "null"

\* EMUtil::is_same_size
is_same_size(a, b) == a.nx = b.nx /\ a.ny = b.ny /\ a.nz = b.nz

\* Dict::set_default(key, dflt): the configured value, or the default
set_default(bag, key, dflt) == IF key \in DOMAIN bag THEN bag[key] ELSE dflt

\* EMData::process(...) and EMData::copy(): a new image holding the source's size and
\* attributes
NewFrom(img, how) == [img EXCEPT !.rev = 0, !.origin = how]

\* what one call reports: the outcome, the returned image, the caller's moving image
\* afterwards, the images left allocated, the operations performed, and the locals
\* the properties read (the branch scores, the search bounds and the peak)
Zero3 == <<0, 0, 0>>

Ret(oc, img, mov, lv, lg) ==
    [outcome |-> oc, img |-> img, moving |-> mov, live |-> lv, log |-> lg,
     cmp1 |-> 0, cmp2 |-> 0, taken |-> 0, maxshift |-> Zero3, peak |-> Zero3,
     angle |-> 0]

\* the exceptions align throws
Exceptions == {"InvalidParameterException", "ImageDimensionException",
               "ImageFormatException"}

\* what a build can do on a call through a null EMData pointer
UBOutcomes == {"SIGSEGV", "unspecified"}

Threw(r) == r.outcome \in Exceptions \cup UBOutcomes

\* an exception or a fault leaving a callee: the caller's frame is unwound without
\* releasing what it holds (raw pointers), so held stays allocated
Propagate(r, held, lg) ==
    [r EXCEPT !.img = NullImg, !.live = r.live \cup held, !.log = r.log \cup lg]

----------------------------------------------------------------------------
(* TranslationalAligner::align, aligner.cpp:95-187 *)

\* a variant of EffMaxShift without the clamp of lines 133-135
EffMaxShiftMut(cfg, n) ==
    LET m0 == IF cfg <= 0 THEN n \div 8 ELSE cfg
    IN  IF n = 1 THEN 0 ELSE m0

\* the effective search bound of one axis of extent n (lines 127-139)
EffMaxShift(cfg, n) ==
    LET m0 == IF cfg <= 0 THEN n \div 8 ELSE cfg
        m1 == IF m0 > n \div 2 - 1 THEN n \div 2 - 1 ELSE m0
    IN  IF n = 1 THEN 0 ELSE m1

\* EMData::calc_max_location_wrap(mx, my, mz): the offsets a peak search bounded by
\* (mx, my, mz) can return
PeakSet(mx, my, mz) ==
    { <<px, py, pz>> : px \in -mx..mx, py \in -my..my, pz \in -mz..mz }

\* this_img->calc_ccf(to) of two images holding one nonzero sample each, at p and at q:
\* the sum over x of this_img[x] * to[x + d] is not 0 for d = q - p alone, and the map
\* holds it at the index (q - p) modulo the extents (the origin is the zero shift)
calc_ccf(img, ref) ==
    <<(ref.dot[1] - img.dot[1]) % img.nx, (ref.dot[2] - img.dot[2]) % img.ny, 0>>

\* cf->calc_max_location_wrap(mx, my, mz) of a map whose only nonzero sample, a
\* positive one, is at the index at: the offset in the window that addresses it, and
\* any offset of the window when none does (every sample of the window is 0)
calc_max_location_wrap(at, img, ms) ==
    LET hits == { d \in PeakSet(ms[1], ms[2], ms[3]) :
                    /\ d[1] % img.nx = at[1]
                    /\ d[2] % img.ny = at[2]
                    /\ d[3] = at[3] }
    IN  IF hits # {} THEN hits ELSE PeakSet(ms[1], ms[2], ms[3])

\* the peaks line 156 can find for the moving image img and the reference ref
Peaks(img, ref, ms) ==
    IF ~IsNull(ref) /\ HasDot(img) /\ HasDot(ref)
    THEN calc_max_location_wrap(calc_ccf(img, ref), img, ms)
    ELSE PeakSet(ms[1], ms[2], ms[3])

\* floor(x + 0.5f) of a value x given in half pixels, in half pixels (lines 164-166)
RoundHalf(h) == HalfPx * ((h + 1) \div HalfPx)

\* a variant of CurTrans that keeps the sign of the peak
CurTransSameSign(peak, hasRef, intonly) ==
    IF hasRef THEN [i \in 1..3 |-> HalfPx * peak[i]]
    ELSE IF intonly # 0 THEN [i \in 1..3 |-> RoundHalf(peak[i])]
    ELSE peak

\* a variant of CurTrans that halves and rounds whether or not there is a reference
CurTransMut(peak, hasRef, intonly) ==
    LET neg == [i \in 1..3 |-> -peak[i]]
    IN  [i \in 1..3 |-> RoundHalf(neg[i])]

\* cur_trans of lines 158-168, in half pixels, for the peak found
CurTrans(peak, hasRef, intonly) ==
    LET neg == [i \in 1..3 |-> -peak[i]]
    IN  IF hasRef THEN [i \in 1..3 |-> HalfPx * neg[i]]
        ELSE IF intonly # 0 THEN [i \in 1..3 |-> RoundHalf(neg[i])]
        ELSE neg

\* Aligner::get_set_align_attr(key, image, from_image) followed by set_trans
SetAlignTrans(from_xf, ct) ==
    [(IF from_xf.has THEN from_xf ELSE IdentityXf)
        EXCEPT !.has = TRUE, !.tx = ct[1], !.ty = ct[2], !.tz = ct[3]]

\* process("math.translate.int") by ct (line 175): the nonzero sample of an image that
\* holds one moves by ct, given in half pixels, around the edges
Translate(img, ct) ==
    IF HasDot(img) /\ ct[1] % HalfPx = 0 /\ ct[2] % HalfPx = 0
    THEN [NewFrom(img, "process") EXCEPT
            !.dot = <<(img.dot[1] + ct[1] \div HalfPx) % img.nx,
                      (img.dot[2] + ct[2] \div HalfPx) % img.ny>>]
    ELSE [NewFrom(img, "process") EXCEPT !.dot = << >>]

\* lines 174-186: the translated copy with the transform stored under the key of its
\* dimensionality
TranslatedImg(img, ct) ==
    LET cf == Translate(img, ct)
    IN  IF img.nz # 1 THEN [cf EXCEPT !.a3d = SetAlignTrans(img.a3d, ct)]
        ELSE IF img.ny # 1
             THEN [cf EXCEPT !.a2d = SetAlignTrans(img.a2d, [ct EXCEPT ![3] = 0])]
        ELSE cf

\* the three search bounds of lines 122-139
MaxShifts(img, bag) ==
    LET cfg == set_default(bag, "maxshift", -1)
    IN  <<EffMaxShift(cfg, img.nx), EffMaxShift(cfg, img.ny), EffMaxShift(cfg, img.nz)>>

\* the calls TranslationalAligner::align(img, ref) can make, one for each peak the
\* correlation map can hold
TranslationalAlign(img, ref, bag) ==
    IF IsNull(img) THEN { Ret("null", NullImg, img, {}, {}) }
    ELSE IF ~IsNull(ref) /\ ~is_same_size(img, ref)
    THEN { Ret("ImageDimensionException", NullImg, img, {}, {}) }
    ELSE
        LET nozero == set_default(bag, "nozero", 0)
            intonly == set_default(bag, "intonly", 0)
            ms == MaxShifts(img, bag)
            lg == {"calc_ccf", "calc_max_location_wrap", "math.translate.int"}
                    \cup (IF nozero # 0 THEN {"zero_corner_circulant"} ELSE {})
        IN  { [Ret("image", TranslatedImg(img, CurTrans(peak, ~IsNull(ref), intonly)),
                   img, {}, lg) EXCEPT !.maxshift = ms, !.peak = peak] :
              peak \in Peaks(img, ref, ms) }

----------------------------------------------------------------------------
(* RotationalAligner, aligner.cpp:189-274 *)

Scores == 0..MaxScore

\* The size checks of the image primitives (calc_ccfx, cmp) are not part of
\* aligner.cpp.  strict = TRUE: a primitive given two images of different sizes
\* throws; strict = FALSE: it computes on them.
Mismatch(strict, a, b) == strict /\ ~is_same_size(a, b)

\* the image align_180_ambiguous returns for the footprint maximum at peak_index
\* (lines 224-232): the moving image rotated, the angle stored under xform.align2d
Rotated(img, peak_index) ==
    LET cf == NewFrom(img, "process")
        t == IF img.a2d.has THEN img.a2d ELSE IdentityXf
    IN  [cf EXCEPT !.a2d = [t EXCEPT !.alpha = peak_index, !.den = RfpNx]]

\* lines 193-201: the footprint of the moving image under the convention rfp_mode
ThisFootprint(rfp_mode) ==
    CASE rfp_mode = 0 -> "this_img->make_rotational_footprint_e1"
      [] rfp_mode = 1 -> "this_img->make_rotational_footprint"
      [] rfp_mode = 2 -> "this_img->make_rotational_footprint_cmc"

\* a variant of ToFootprint that takes the first convention whatever rfp_mode is
ToFootprintMut(rfp_mode) == "to->make_rotational_footprint_e1"

\* lines 193-201: the footprint of the reference under the convention rfp_mode
ToFootprint(rfp_mode) ==
    CASE rfp_mode = 0 -> "to->make_rotational_footprint_e1"
      [] rfp_mode = 1 -> "to->make_rotational_footprint"
      [] rfp_mode = 2 -> "to->make_rotational_footprint_cmc"

Footprints(rfp_mode) == {ThisFootprint(rfp_mode), ToFootprint(rfp_mode)}

\* RotationalAligner::align_180_ambiguous(this_img, to, rfp_mode)
align_180_ambiguous(img, ref, rfp_mode, strict) ==
    IF rfp_mode \notin {0, 1, 2}
    THEN { Ret("InvalidParameterException", NullImg, img, {}, {}) }
    ELSE IF IsNull(ref)
    THEN { Ret(ub, NullImg, img, {"this_img_rfp"}, {ThisFootprint(rfp_mode)}) :
           ub \in UBOutcomes }
    ELSE IF Mismatch(strict, img, ref)
    THEN { Ret("ImageFormatException", NullImg, img, {"this_img_rfp", "to_rfp"},
               Footprints(rfp_mode) \cup {"calc_ccfx"}) }
    ELSE { [Ret("image", Rotated(img, peak_index), img, {},
                Footprints(rfp_mode) \cup {"calc_ccfx", "find_max", "math.transform"})
              EXCEPT !.angle = peak_index] :
           peak_index \in 0..(RfpNx - 1) }

\* process("math.rotate.180"): the samples turned by 180 degrees
HalfTurn(img) == [img EXCEPT !.turns = @ + 1]

\* a variant of HalfTurnBack that leaves the angle as estimated
HalfTurnBackMut(alpha) == alpha

\* rotate_angle_solution - 180 (lines 267, 367), in units of 180 / RfpNx degrees
HalfTurnBack(alpha) == alpha - RfpNx

\* a variant of RotationalFirst that keeps the first candidate on a tie
RotationalFirstMut(rot_cmp, rot_180_cmp) == rot_cmp <= rot_180_cmp

\* line 259: the first candidate is kept
RotationalFirst(rot_cmp, rot_180_cmp) == rot_cmp < rot_180_cmp

\* lines 249-273, after align_180_ambiguous returned rot_aligned
RotationalDecide(r, ref, strict) ==
    LET rot_aligned == r.img
        rot_align_180 == HalfTurn(NewFrom(rot_aligned, "process"))
        lg == r.log \cup {"math.rotate.180"}
    IN  IF Mismatch(strict, rot_aligned, ref)
        THEN { Ret("ImageFormatException", NullImg, r.moving,
                   {"rot_aligned", "rot_align_180"}, lg \cup {"cmp"}) }
        ELSE { [Ret("image",
                    IF RotationalFirst(c1, c2)
                    THEN [rot_aligned EXCEPT !.cmpval = c1]
                    ELSE [rot_align_180 EXCEPT !.cmpval = c2,
                                               !.a2d.alpha = HalfTurnBack(r.angle)],
                    r.moving, {}, lg \cup {"cmp"})
                 EXCEPT !.cmp1 = c1, !.cmp2 = c2, !.angle = r.angle,
                        !.taken = IF RotationalFirst(c1, c2) THEN 1 ELSE 2] :
               c1 \in Scores, c2 \in Scores }

\* RotationalAligner::align(this_img, to)
RotationalAlign(img, ref, bag, strict) ==
    IF IsNull(ref) THEN { Ret("InvalidParameterException", NullImg, img, {}, {}) }
    ELSE UNION { IF Threw(r) THEN { r } ELSE RotationalDecide(r, ref, strict) :
                 r \in align_180_ambiguous(img, ref, set_default(bag, "rfp_mode", 0),
                                           strict) }

----------------------------------------------------------------------------
(* RotatePrecenterAligner::align, aligner.cpp:277-315 *)

RECURSIVE Smooth(_)
\* n has no prime factor other than 2, 3 and 5
Smooth(n) ==
    IF n <= 1 THEN n = 1
    ELSE IF n % 2 = 0 THEN Smooth(n \div 2)
    ELSE IF n % 3 = 0 THEN Smooth(n \div 3)
    ELSE IF n % 5 = 0 THEN Smooth(n \div 5)
    ELSE FALSE

\* Util::calc_best_fft_size(low): the first size not below low that an FFT handles well
calc_best_fft_size(low) ==
    CHOOSE n \in low..(2 * low + 1) :
        /\ Smooth(n)
        /\ \A m \in low..(n - 1) : ~Smooth(m)

\* (int) (M_PI * ny * 1.5), line 285
PiNy15(ny) == (ny * 4712389) \div 1000000

\* the row-wise correlation e1->calc_ccfx(e2, 0, ny) of two unwrapped images of
\* angular length size, summed over the rows: one row of length size
CcfxSum(img, size) ==
    [NullImg EXCEPT !.nx = size, !.ny = 1, !.nz = 1, !.origin = "calc_ccfx",
                    !.a2d = img.a2d, !.a3d = img.a3d]

RotatePrecenterAlign(img, ref) ==
    IF IsNull(ref) THEN { Ret("null", NullImg, img, {}, {}) }
    ELSE
        LET size == calc_best_fft_size(PiNy15(img.ny))
            cf == CcfxSum(img, size)
            t == IF img.a2d.has THEN img.a2d ELSE IdentityXf
        IN  { Ret("image",
                  [cf EXCEPT !.a2d = [t EXCEPT !.alpha = -2 * (size - peak_index),
                                               !.den = size]],
                  [img EXCEPT !.rev = @ + 1], {},
                  {"unwrap", "calc_ccfx", "find_max", "transform"}) :
              peak_index \in 0..(size - 1) }

----------------------------------------------------------------------------
(* RotateTranslateAligner::align, aligner.cpp:317-374 *)

\* a variant of RotateTranslateFirst that keeps the candidate of the higher score
RotateTranslateFirstMut(cmp1, cmp2) == cmp2 < cmp1

\* line 354: the first candidate is kept
RotateTranslateFirst(cmp1, cmp2) == cmp1 < cmp2

\* trans_params of lines 330-335
TransParams(bag) ==
    [k \in {"intonly", "maxshift", "nozero"} |->
        CASE k = "intonly" -> 0
          [] k = "maxshift" -> set_default(bag, "maxshift", -1)
          [] k = "nozero" -> set_default(bag, "nozero", 0)]

\* lines 349-373: the decision between the two translated candidates
RotateTranslateDecide(rot_trans, rot_180_trans, mov, lg, angle) ==
    { [Ret("image",
           IF RotateTranslateFirst(c1, c2)
           THEN [rot_trans.img EXCEPT !.cmpval = c1]
           ELSE [rot_180_trans.img EXCEPT !.cmpval = c2,
                                          !.a2d.alpha = HalfTurnBack(angle)],
           mov, {}, lg \cup {"cmp"})
        EXCEPT !.cmp1 = c1, !.cmp2 = c2, !.angle = angle,
               !.taken = IF RotateTranslateFirst(c1, c2) THEN 1 ELSE 2,
               !.maxshift = rot_trans.maxshift,
               !.peak = IF RotateTranslateFirst(c1, c2) THEN rot_trans.peak
                        ELSE rot_180_trans.peak] :
      c1 \in Scores, c2 \in Scores }

\* lines 327-347, after align_180_ambiguous returned rot_align
RotateTranslateShift(r, ref, bag) ==
    LET rot_align == r.img
        rot_align_180 == HalfTurn(NewFrom(rot_align, "copy"))
        lg == r.log \cup {"copy", "math.rotate.180"}
        first == TranslationalAlign(rot_align, ref, TransParams(bag))
        second == TranslationalAlign(rot_align_180, ref, TransParams(bag))
    IN  UNION { IF Threw(t1) THEN { Propagate(t1, {"rot_align", "rot_align_180"}, lg) }
                ELSE UNION { RotateTranslateDecide(t1, t2, r.moving,
                                                   lg \cup t1.log \cup t2.log, r.angle) :
                             t2 \in second } :
                t1 \in first }

\* RotateTranslateAligner::align(this_img, to)
RotateTranslateAlign(img, ref, bag, strict) ==
    UNION { IF Threw(r) THEN { r } ELSE RotateTranslateShift(r, ref, bag) :
            r \in align_180_ambiguous(img, ref, set_default(bag, "rfp_mode", 0),
                                      strict) }

----------------------------------------------------------------------------
(* RotateTranslateFlipAligner::align, aligner.cpp:379-426, and
   RotateFlipAligner::align, aligner.cpp:431-470 *)

\* to->process("xform.flip", Dict("axis", "x")): the mirrored reference
Flipped(ref) == NewFrom(ref, "process")

\* get_align_attr(key, image) followed by set_mirror(true) (lines 395-396, 440-441)
SetMirror(img) ==
    [img EXCEPT !.a2d = [(IF @.has THEN @ ELSE IdentityXf) EXCEPT !.mirror = TRUE]]

\* result->process_inplace("xform.flip", Dict("axis", "x"))
FlipInPlace(img) == [img EXCEPT !.flips = @ + 1]

\* a variant of DeleteFlipped that deletes the mirrored reference whoever made it
DeleteFlippedMut(delete_flag) == {"delete flipped"}

\* lines 402-405, 535-538 and 889: the mirrored reference is deleted when the call
\* made it (delete_flag, delete_flipped), and left alone when the caller supplied it
DeleteFlipped(delete_flag) == IF delete_flag THEN {"delete flipped"} ELSE {}

\* line 408: the un-mirrored candidate is kept
RotateTranslateFlipFirst(cmp1, cmp2) == cmp1 < cmp2

\* line 451: the un-mirrored candidate is kept
RotateFlipFirst(cmp1, cmp2) == cmp1 < cmp2

\* rt_params of line 383: params["maxshift"] of a bag without the key is an EMObject
\* of unknown type, which converts to the int 0
RtParams(bag) ==
    [k \in {"maxshift", "rfp_mode"} |->
        IF k = "maxshift" THEN set_default(bag, "maxshift", 0)
        ELSE set_default(bag, "rfp_mode", 0)]

\* the decision of lines 398-425 (first = RotateTranslateFlipFirst) and of lines
\* 444-469 (first = RotateFlipFirst) between the candidate r1 aligned to the
\* reference and the candidate r2 aligned to the mirrored reference
\* cmp1 (lines 399, 444) scores the first call's result against the reference that call
\* scored it against, and cmp2 (lines 400, 445) likewise: the comparator being a
\* function of its two images, they are the scores the nested calls kept
FlipDecide(r1, r2, first, lg) ==
    LET cmp1 == r1.img.cmpval
        cmp2 == r2.img.cmpval
    IN  [Ret("image",
             IF first THEN r1.img ELSE FlipInPlace(SetMirror(r2.img)),
             r2.moving, {}, lg \cup r1.log \cup r2.log \cup {"cmp"})
           EXCEPT !.cmp1 = cmp1, !.cmp2 = cmp2, !.taken = IF first THEN 1 ELSE 2,
                  !.maxshift = r1.maxshift,
                  !.peak = IF first THEN r1.peak ELSE r2.peak]

\* what a caller reads of a nested align call: everything but the callee's locals
Callee(r) == [r EXCEPT !.cmp1 = 0, !.cmp2 = 0, !.taken = 0, !.angle = 0]

\* this_img->align("rotate_translate", ref, bag) and this_img->align("rotational", ...)
NestedRotateTranslate(img, ref, bag, strict) ==
    { Callee(r) : r \in RotateTranslateAlign(img, ref, bag, strict) }

NestedRotational(img, ref, bag, strict) ==
    { Callee(r) : r \in RotationalAlign(img, ref, bag, strict) }

\* RotateTranslateFlipAligner::align(this_img, to); the bag's flip is 1 when the
\* caller supplies the mirrored reference
RotateTranslateFlipAlign(img, ref, bag, strict) ==
    LET given == set_default(bag, "flip", 0) # 0
        held == {"rot_trans_align"} \cup (IF given THEN {} ELSE {"flipped"})
        lg == IF given THEN {} ELSE {"xform.flip"}
    IN  UNION {
          IF Threw(r1) THEN { r1 }
          ELSE { IF Threw(r2) THEN Propagate(r2, held, r1.log \cup lg)
                 ELSE FlipDecide(r1, r2,
                                 RotateTranslateFlipFirst(r1.img.cmpval, r2.img.cmpval),
                                 lg \cup DeleteFlipped(~given)) :
                 r2 \in NestedRotateTranslate(r1.moving, Flipped(ref), RtParams(bag),
                                              strict) } :
          r1 \in NestedRotateTranslate(img, ref, RtParams(bag), strict) }

\* rot_params of line 434
RotParams(bag) == [k \in {"rfp_mode"} |-> set_default(bag, "rfp_mode", 0)]

\* RotateFlipAligner::align(this_img, to)
RotateFlipAlign(img, ref, bag, strict) ==
    UNION {
      IF Threw(r1) THEN { r1 }
      ELSE { IF Threw(r2) THEN Propagate(r2, {"r1", "flipped"}, r1.log \cup {"xform.flip"})
             ELSE FlipDecide(r1, r2, RotateFlipFirst(r1.img.cmpval, r2.img.cmpval),
                             {"xform.flip"}) :
             r2 \in NestedRotational(r1.moving, Flipped(ref), RotParams(bag), strict) } :
      r1 \in NestedRotational(img, ref, RotParams(bag), strict) }

----------------------------------------------------------------------------
(* RefineAligner::align, aligner.cpp:982-1078 *)

\* the default of maxiter (line 1055)
DefaultMaxIter == 28

\* the return codes of gsl_multimin_test_size and gsl_multimin_fminimizer_iterate
GSL_SUCCESS == 0
GSL_CONTINUE == -2

\* a variant of SeedMirror that never reads the seed
SeedMirrorMut(bag) == FALSE

\* the seed transform the bag holds under xform.align2d: 0 is the null pointer,
\* 1 a transform without mirror, 2 a transform with mirror (lines 998-1006)
SeedMirror(bag) == set_default(bag, "xform.align2d", 0) = 2

\* the points the simplex can end on, (dx, dy) in half pixels
RefinePoints == { <<x, y, a>> : x \in {0, 1}, y \in {0}, a \in {0, 1} }

\* lines 1065-1069: the solution transform on the copy of the moving image
RefineResult(img, mirror, x) ==
    [NewFrom(img, "copy") EXCEPT
        !.a2d = [IdentityXf EXCEPT !.alpha = x[3], !.den = 180, !.tx = x[1],
                                   !.ty = x[2], !.mirror = mirror]]

----------------------------------------------------------------------------
(* RTFExhaustiveAligner::align, aligner.cpp:487-744 *)

\* FLT_MAX (lines 542, 648): above every score a comparator returns
FltMax == MaxScore + 1

\* a variant of InDisk that admits the whole square
InDiskMut(dx, dy, r) == TRUE

\* hypot(dx, dy) <= r for integral dx, dy, r
InDisk(dx, dy, r) == dx * dx + dy * dy <= r * r

\* a variant of FastMaxShiftTooSmall that lets a maxshift of 1 pass
FastMaxShiftTooSmallMut(maxshift) == maxshift < 1

\* line 492: the maxshift rtf_exhaustive refuses
FastMaxShiftTooSmall(maxshift) == maxshift < 2

\* the inner radius of every unwrap (lines 502, 511, 523, 531, 558, 663)
UnwrapInner == 4

\* the outer radius of the unwrap of the images shrunk by 2: to_copy_r2 of line 501 and
\* ur2 of line 549
Ur2(img, maxshift) == (img.ny \div 2) \div 2 - 2 - maxshift \div 2

\* the outer radius of the unwrap at full resolution (lines 511, 531, 663)
Ur(img, maxshift) == img.ny \div 2 - 2 - maxshift

\* xst of lines 495-496
Xst(img) == calc_best_fft_size((img.ny * 6283185) \div 1000000)

\* the images lines 499-540 leave allocated for the two stages
FastSetupLive ==
    {"to_shrunk_unwrapped", "to_shrunk_unwrapped_copy", "to_unwrapped",
     "to_unwrapped_copy", "to_shrunk_flipped_unwrapped",
     "to_shrunk_flipped_unwrapped_copy", "to_flip_unwrapped", "to_flip_unwrapped_copy",
     "this_shrunk_2"}

\* the images lines 621-645 release after stage 1
FastStage1Live ==
    {"this_shrunk_2", "to_shrunk_unwrapped", "to_shrunk_unwrapped_copy",
     "to_shrunk_flipped_unwrapped", "to_shrunk_flipped_unwrapped_copy"}

\* the best candidate so far (lines 542-546)
Best(val, ang, den, dx, dy, flip) ==
    [val |-> val, ang |-> ang, den |-> den, dx |-> dx, dy |-> dy, flip |-> flip]

\* lines 564-570 and 594-600: a candidate scoring cm replaces the best one when it
\* scores strictly lower
Better(best, cm, ang, den, dx, dy, flip) ==
    IF cm < best.val THEN Best(cm, ang, den, dx, dy, flip) ELSE best

\* lines 558-600 and 663-706: the candidate (dx, dy) scored against the reference
\* (cm0, maximum at index i0) and against the mirrored reference (cm1, index i1)
FastScore(best, dx, dy, den, cm0, i0, cm1, i1) ==
    Better(Better(best, cm0, 2 * i0, den, dx, dy, 0), cm1, 2 * i1, den, dx, dy, 1)

\* what stage 2 keeps of stage 1: its best score and its winner (bestdx2 and bestdy2
\* of lines 650-651 are twice dx and dy)
Stage1(best) == [val |-> best.val, dx |-> best.dx, dy |-> best.dy]

NoStage1 == [val |-> FltMax, dx |-> 0, dy |-> 0]

\* the locals of an exhaustive search between two candidates; scored and at: a
\* candidate of this stage has been scored, and the last one that was; angs: the
\* angles the loop over the angles scored it at (rtf_slow_exhaustive); refs: the
\* references it was scored against; ur2 and ur: the outer radii of the unwraps made
\* (rtf_exhaustive)
Search(stage, maxshift, dy, dx, best, s1) ==
    [stage |-> stage, maxshift |-> maxshift, dy |-> dy, dx |-> dx, best |-> best,
     s1 |-> s1, scored |-> FALSE, at |-> <<0, 0>>, strict |-> FALSE, angs |-> << >>,
     refs |-> {}, ur2 |-> 0, ur |-> 0]

\* lines 732-743: the transform of the best candidate on a copy of the moving image
FastResult(img, best) ==
    [NewFrom(img, "copy") EXCEPT
        !.a2d = [IdentityXf EXCEPT !.alpha = best.ang, !.den = best.den,
                                   !.tx = -best.dx * HalfPx, !.ty = -best.dy * HalfPx,
                                   !.pre = TRUE, !.mirror = best.flip # 0]]

----------------------------------------------------------------------------
(* RTFSlowExhaustiveAligner::align, aligner.cpp:747-903.  Positions are kept in
   half pixels and angles in steps of angle_step. *)

\* the default of transtep (line 777), in half pixels
DefaultTransStep == 2

\* trans_step of line 777, in half pixels (the bag holds transtep in half pixels)
TransStep(bag) == set_default(bag, "transtep", DefaultTransStep)

\* angstep of line 772 in degrees; 0 selects atan2(2, nx)
AngStep(bag) == set_default(bag, "angstep", 0)

\* the number of steps of angle_step in a full turn, floor(2 pi / angle_step); the
\* default step is atan2(2.0f, nx)
StepsPerTurn(bag, img) ==
    IF AngStep(bag) = 0
    THEN CASE img.nx = 4 -> 13
           [] img.nx = 8 -> 25
           [] img.nx = 16 -> 50
           [] OTHER -> (img.nx * 314) \div 100
    ELSE 360 \div AngStep(bag)

\* a variant of Stage1Angles that advances by one step
RECURSIVE Stage1AnglesMut(_, _)
Stage1AnglesMut(k, n) == IF k > n THEN << >> ELSE <<k>> \o Stage1AnglesMut(k + 1, n)

\* the angles of the loop of line 801, in steps: -2, 2, 6, ... up to a full turn
RECURSIVE Stage1Angles(_, _)
Stage1Angles(k, n) == IF k > n THEN << >> ELSE <<k>> \o Stage1Angles(k + 4, n)

\* a variant of Stage2Angles that starts a step lower
Stage2AnglesMut(k) == [i \in 1..13 |-> k - 8 + i]

\* the angles of the loop of line 858, in steps: the 13 around bestang2
Stage2Angles(k) == [i \in 1..13 |-> k - 7 + i]

\* lines 808-825 and 865-883: the candidate (dx, dy, ang) scored against the
\* reference (lc0) and against the mirrored reference (lc1)
SlowScore(best, dx, dy, ang, lc0, lc1) ==
    Better(Better(best, lc0, ang, best.den, dx, dy, 0), lc1, ang, best.den, dx, dy, 1)

\* the loops of lines 801-826 and 858-884 over the angles angs for one (dx, dy):
\* the best candidates they can end with, starting from one of bests
RECURSIVE AngleLoop(_, _, _, _)
AngleLoop(bests, angs, dx, dy) ==
    IF angs = << >> THEN bests
    ELSE AngleLoop({ SlowScore(b, dx, dy, Head(angs), lc0, lc1) :
                       b \in bests, lc0 \in Scores, lc1 \in Scores },
                   Tail(angs), dx, dy)

\* lines 891-902: the transform of the best candidate on the copy of the moving image;
\* den = 0: alpha counts steps of atan2(2, nx)
SlowResult(img, best) ==
    [NewFrom(img, "copy") EXCEPT
        !.a2d = [IdentityXf EXCEPT
                    !.alpha = IF best.den = 0 THEN best.ang ELSE best.ang * best.den,
                    !.den = IF best.den = 0 THEN 0 ELSE 180,
                    !.tx = best.dx, !.ty = best.dy, !.mirror = best.flip # 0]]

----------------------------------------------------------------------------
(* Inputs *)

Extents == 1..MaxExtent

\* the shapes of the images a caller passes: 1D, 2D and 3D
Shapes == { <<nx, ny, nz>> \in Extents \X Extents \X Extents :
               /\ ny \in {1, nx}
               /\ nz \in {1, ny} }

\* a reference of another size
OtherSize(img) == CallerImg(img.nx + 1, img.ny, img.nz)

\* the references a caller can pass with a moving image: none, one of the same size,
\* one of another size
Refs(img) == {NullImg, CallerImg(img.nx, img.ny, img.nz), OtherSize(img)}

\* configuration bags: every subset of the keys may be configured
Bags(keys, vals) == UNION { [ks -> vals] : ks \in SUBSET keys }

\* the shapes given to the 2D strategies
Shapes2D == { <<nx, ny, 1>> : nx \in 2..MaxExtent2D, ny \in 2..MaxExtent2D }

\* rfp_mode: not configured, the three conventions, and a value outside them
RotationalBags == Bags({"rfp_mode"}, 0..3)

\* the bags of rotate_translate
RotateTranslateBags ==
    { b \in Bags({"rfp_mode", "maxshift"}, {0, 2, 3, MaxShiftCfg}) :
        /\ "rfp_mode" \in DOMAIN b => b["rfp_mode"] \in {0, 2, 3}
        /\ "maxshift" \in DOMAIN b => b["maxshift"] \in {0, MaxShiftCfg} }

\* the bags of rotate_translate_flip: flip = 1 is a mirrored reference of the caller
RotateTranslateFlipBags ==
    { b \in Bags({"rfp_mode", "maxshift", "flip"}, {1, 3, MaxShiftCfg}) :
        /\ "rfp_mode" \in DOMAIN b => b["rfp_mode"] = 3
        /\ "maxshift" \in DOMAIN b => b["maxshift"] = MaxShiftCfg
        /\ "flip" \in DOMAIN b => b["flip"] = 1 }

\* the shapes given to rotate_precenter (it reads no key of its bag): large enough for
\* the ring unwrap(4, ny * 7 / 16, ...) to hold rows
PrecenterShapes == { <<16, 16, 1>>, <<20, 16, 1>> }

\* the bags of refine: the iteration cap and the seed transform
RefineBags ==
    { b \in Bags({"maxiter", "xform.align2d"}, 0..3) :
        "xform.align2d" \in DOMAIN b => b["xform.align2d"] \in 0..2 }

\* the extents of the images given to the exhaustive strategies
ExhExtents == {8, 16}

\* the bags of rtf_exhaustive
FastBags ==
    { << >>,
      [k \in {"flip"} |-> 1],
      [k \in {"maxshift"} |-> 1],
      [k \in {"maxshift"} |-> 2] }

\* the bags of rtf_slow_exhaustive: transtep in half pixels, angstep in degrees
SlowBags ==
    { << >>,
      [k \in {"flip"} |-> 1],
      [k \in {"transtep"} |-> 0],
      [k \in {"angstep"} |-> -90],
      [k \in {"angstep", "transtep"} |-> IF k = "angstep" THEN 90 ELSE 4],
      [k \in {"flip", "transtep"} |-> IF k = "flip" THEN 1 ELSE 0],
      [k \in {"angstep", "maxshift", "transtep"} |->
          CASE k = "angstep" -> 90 [] k = "maxshift" -> 2 [] k = "transtep" -> 4],
      [k \in {"angstep", "maxshift", "transtep"} |->
          CASE k = "angstep" -> 180 [] k = "maxshift" -> 2 [] k = "transtep" -> 14] }

TranslationalBags ==
    { b \in Bags({"maxshift", "intonly"}, -1..MaxShiftCfg) :
        "intonly" \in DOMAIN b => b["intonly"] \in {0, 1} }

\* the extents of the images of one nonzero sample, the place of that sample in the
\* moving image, and the maxshift configured for them
DotExtents == {16, 64}
DotAt(n) == <<(5 * n) \div 8, (5 * n) \div 8>>
DotBags == { << >>, [k \in {"maxshift"} |-> 10] }

\* the shifts of the reference of a moving image of extent n: those within the bound
\* of the search, and one a sample beyond it
DotShifts(n, bag) ==
    LET m == EffMaxShift(set_default(bag, "maxshift", -1), n)
    IN  { <<sx, sy>> : sx \in -m..m, sy \in -m..m } \cup { <<m + 1, 0>> }

\* img shifted by s around its edges
Shifted(img, s) ==
    [img EXCEPT !.dot = <<(img.dot[1] + s[1]) % img.nx, (img.dot[2] + s[2]) % img.ny>>]

\* the extents of the images given to the accelerated backend
CudaExtents == {2, 4}

\* the batch sizes given to CUDA_Aligner::setup
CudaBatches == {1, 2}

----------------------------------------------------------------------------
(* The configuration bag across a call *)

\* the default values of the set_default calls and of the reads params[key]
\* (an absent key reads as 0); the floats 0.04f, 1.0f and 5.0f are kept as
\* 0, 1 and 5, transtep in half pixels
DefaultOf(img) ==
    [k \in {"maxshift", "nozero", "intonly", "rfp_mode", "flip", "angstep", "transtep",
            "mode", "xform.align2d", "snr", "stepx", "stepy", "stepaz", "precision",
            "maxiter"} |->
        CASE k = "maxshift" -> -1
          [] k = "transtep" -> DefaultTransStep
          [] k \in {"stepx", "stepy"} -> 1
          [] k = "stepaz" -> 5
          [] k = "maxiter" -> DefaultMaxIter
          [] OTHER -> 0]

\* the keys a call of the strategy al reads from its bag, on the path that performed
\* the operations lg
KeysRead(al, img, ref, bag, lg) ==
    CASE al = "translational" ->
           IF IsNull(img) \/ (~IsNull(ref) /\ ~is_same_size(img, ref)) THEN {}
           ELSE {"maxshift", "nozero"} \cup (IF IsNull(ref) THEN {"intonly"} ELSE {})
      [] al = "rotational" -> IF IsNull(ref) THEN {} ELSE {"rfp_mode"}
      [] al = "rotate_precenter" -> {}
      [] al = "rotate_translate" ->
           {"rfp_mode"} \cup (IF "copy" \in lg THEN {"maxshift", "nozero"} ELSE {})
      [] al = "rotate_translate_flip" ->
           {"maxshift", "rfp_mode"}
             \cup (IF "xform.flip" \in lg \/ "flip" \in DOMAIN bag THEN {"flip"} ELSE {})
      [] al = "rotate_flip" -> {"rfp_mode"}
      [] al = "refine" ->
           IF IsNull(ref) THEN {}
           ELSE {"mode", "xform.align2d", "snr", "stepx", "stepy", "stepaz"}
                  \cup (IF "gsl_multimin_fminimizer_set" \in lg
                        THEN {"precision", "maxiter"} ELSE {})
      [] al = "rtf_exhaustive" -> {"flip", "maxshift"}
      [] al = "rtf_slow_exhaustive" ->
           {"flip", "maxshift"}
             \cup (IF "flip" \notin DOMAIN bag /\ IsNull(ref) THEN {}
                   ELSE {"angstep", "transtep"})
      [] OTHER -> {}

\* a variant of BagAfter in which a read of an absent key stores the default under it
BagAfterMut(bag, keys, dflt) ==
    [k \in DOMAIN bag \cup keys |-> IF k \in DOMAIN bag THEN bag[k] ELSE dflt[k]]

\* the bag after Dict::set_default and Dict::operator[] have read the keys: reading
\* leaves the bag as it was
BagAfter(bag, keys, dflt) == bag

\* the bag after the call of the running strategy that performed the operations lg
ParamsAfter(lg) ==
    BagAfter(params, KeysRead(aligner, this_img, to, params, lg),
             IF aligner = "rtf_exhaustive"
             THEN [DefaultOf(this_img) EXCEPT !["maxshift"] = this_img.nx \div 8]
             ELSE IF aligner = "rotate_translate_flip"
             THEN [DefaultOf(this_img) EXCEPT !["maxshift"] = 0]
             ELSE DefaultOf(this_img))

----------------------------------------------------------------------------
(* The state machine *)

NoBranch == [cmp1 |-> 0, cmp2 |-> 0, taken |-> 0]
NoFound == [maxshift |-> Zero3, peak |-> Zero3, angle |-> 0]
NoSearch == [stage |-> 0]

\* the locals of RefineAligner::align between the minimiser's iterations; mirror is
\* gsl_params["mirror"] (line 1013), evals the values of mirror that the evaluations
\* of the objective (refalifn, refalifnfast) have read from it so far
RefineSearch(iter, rval, status, mirror, maxiter) ==
    [stage |-> 1, iter |-> iter, rval |-> rval, status |-> status, mirror |-> mirror,
     maxiter |-> maxiter, evals |-> {mirror}]

Init ==
    /\ pc = "idle"
    /\ \/ /\ aligner = "translational"
          /\ params \in TranslationalBags
          /\ \E s \in Shapes, isnull \in BOOLEAN :
                /\ this_img = (IF isnull THEN NullImg ELSE CallerImg(s[1], s[2], s[3]))
                /\ to \in (IF isnull THEN {NullImg} ELSE Refs(this_img))
       \/ /\ aligner = "translational"
          /\ params \in DotBags
          /\ \E n \in DotExtents :
                /\ this_img = DotImg(n, n, DotAt(n))
                /\ to \in { Shifted(this_img, s) : s \in DotShifts(n, params) }
       \/ /\ aligner = "rotational"
          /\ params \in RotationalBags
          /\ \E s \in Shapes2D :
                /\ this_img = CallerImg(s[1], s[2], s[3])
                /\ to \in Refs(this_img)
       \/ /\ aligner = "rotate_flip"
          /\ params \in RotationalBags
          /\ \E s \in Shapes2D :
                /\ this_img \in {CallerImg(s[1], s[2], s[3]), CarriedImg(s[1], s[2], s[3])}
                /\ to \in Refs(this_img)
       \/ /\ aligner = "rotate_precenter"
          /\ params = << >>
          /\ \E s \in PrecenterShapes :
                /\ this_img = CallerImg(s[1], s[2], s[3])
                /\ to \in Refs(this_img)
       \/ /\ aligner = "rotate_translate"
          /\ params \in RotateTranslateBags
          /\ \E s \in Shapes2D :
                /\ this_img = CallerImg(s[1], s[2], s[3])
                /\ to \in Refs(this_img)
       \/ /\ aligner = "rotate_translate_flip"
          /\ params \in RotateTranslateFlipBags
          /\ \E s \in Shapes2D :
                /\ s[1] = s[2]
                /\ this_img = CallerImg(s[1], s[2], s[3])
                /\ to \in Refs(this_img)
       \/ /\ aligner = "refine"
          /\ params \in RefineBags
          /\ \E s \in Shapes2D :
                /\ s[1] = s[2]
                /\ this_img = CallerImg(s[1], s[2], s[3])
                /\ to \in Refs(this_img)
       \/ /\ aligner = "rtf_exhaustive"
          /\ params \in FastBags
          /\ \E n \in ExhExtents :
                /\ this_img = CallerImg(n, n, 1)
                /\ to \in {NullImg, CallerImg(n, n, 1)}
       \/ /\ aligner = "rtf_slow_exhaustive"
          /\ params \in SlowBags
          /\ this_img = CallerImg(4, 4, 1)
          /\ to \in Refs(this_img)
       \/ /\ aligner = "cuda"
          /\ params = << >>
          /\ \E n \in CudaExtents :
                /\ this_img = CallerImg(n, n, 1)
                /\ to = CallerImg(n, n, 1)
    /\ outcome = "none"
    /\ result = NullImg
    /\ live = {}
    /\ log = {}
    /\ branch = NoBranch
    /\ found = NoFound
    /\ srch = NoSearch

\* a whole call of a strategy without a search loop: the state after it returned or threw
Returned(r) ==
    /\ pc' = "returned"
    /\ this_img' = r.moving
    /\ outcome' = r.outcome
    /\ result' = r.img
    /\ live' = r.live
    /\ log' = r.log
    /\ branch' = [cmp1 |-> r.cmp1, cmp2 |-> r.cmp2, taken |-> r.taken]
    /\ found' = [maxshift |-> r.maxshift, peak |-> r.peak, angle |-> r.angle]
    /\ params' = ParamsAfter(r.log)
    /\ UNCHANGED <<aligner, to, srch>>

Translational ==
    /\ pc = "idle"
    /\ aligner = "translational"
    /\ \E r \in TranslationalAlign(this_img, to, params) : Returned(r)

Rotational ==
    /\ pc = "idle"
    /\ aligner = "rotational"
    /\ \E strict \in BOOLEAN :
         \E r \in RotationalAlign(this_img, to, params, strict) : Returned(r)

RotatePrecenter ==
    /\ pc = "idle"
    /\ aligner = "rotate_precenter"
    /\ \E r \in RotatePrecenterAlign(this_img, to) : Returned(r)

RotateTranslate ==
    /\ pc = "idle"
    /\ aligner = "rotate_translate"
    /\ \E strict \in BOOLEAN :
         \E r \in RotateTranslateAlign(this_img, to, params, strict) : Returned(r)

RotateFlip ==
    /\ pc = "idle"
    /\ aligner = "rotate_flip"
    /\ \E strict \in BOOLEAN :
         \E r \in RotateFlipAlign(this_img, to, params, strict) : Returned(r)

RotateTranslateFlip ==
    /\ pc = "idle"
    /\ aligner = "rotate_translate_flip"
    /\ \E strict \in BOOLEAN :
         \E r \in RotateTranslateFlipAlign(this_img, to, params, strict) : Returned(r)

\* RefineAligner::align up to the minimiser's first iteration (lines 986-1055)
RefineBegin ==
    /\ pc = "idle"
    /\ aligner = "refine"
    /\ IF IsNull(to)
       THEN /\ Returned(Ret("null", NullImg, this_img, {}, {}))
       ELSE \E strict \in BOOLEAN :
            IF Mismatch(strict, this_img, to)
            THEN /\ Returned(Ret("ImageFormatException", NullImg, this_img,
                                 {"result", "tmp"}, {"copy", "transform", "cmp"}))
            ELSE /\ pc' = "minimize"
                 /\ live' = {"result"}
                 /\ log' = {"copy", "transform", "cmp", "gsl_multimin_fminimizer_set"}
                 /\ srch' = RefineSearch(1, GSL_CONTINUE, GSL_SUCCESS, SeedMirror(params),
                                         set_default(params, "maxiter", DefaultMaxIter))
                 /\ params' = ParamsAfter(log')
                 /\ UNCHANGED <<aligner, this_img, to, outcome, result, branch, found>>

\* one pass of the loop of lines 1056-1063
RefineIterate ==
    /\ pc = "minimize"
    /\ srch.rval = GSL_CONTINUE
    /\ srch.iter < srch.maxiter
    /\ \E status \in {GSL_SUCCESS, 1}, rval \in {GSL_CONTINUE, GSL_SUCCESS} :
          /\ status # GSL_SUCCESS => rval = srch.rval
          /\ srch' = [srch EXCEPT !.iter = @ + 1, !.status = status, !.rval = rval,
                                   !.evals = @ \cup {srch.mirror}]
          /\ pc' = IF status # GSL_SUCCESS THEN "minimized" ELSE "minimize"
    /\ log' = log \cup {"gsl_multimin_fminimizer_iterate"}
    /\ UNCHANGED <<aligner, this_img, to, params, outcome, result, live, branch, found>>

\* the loop's exit and lines 1065-1077
RefineFinish ==
    /\ \/ pc = "minimized"
       \/ /\ pc = "minimize"
          /\ ~(srch.rval = GSL_CONTINUE /\ srch.iter < srch.maxiter)
    /\ \E x \in RefinePoints :
          /\ result' = RefineResult(this_img, srch.mirror, x)
    /\ pc' = "returned"
    /\ outcome' = "image"
    /\ live' = {}
    /\ UNCHANGED <<aligner, this_img, to, params, log, branch, found, srch>>

\* a step inside a call: the variables it leaves alone
Inside == UNCHANGED <<aligner, this_img, to, params, outcome, result, branch, found>>

\* the first step of a call with a search: it reads the bag
Started ==
    /\ params' = ParamsAfter(log')
    /\ UNCHANGED <<aligner, this_img, to, outcome, result, branch, found>>

\* RTFExhaustiveAligner::align up to the first candidate of stage 1 (lines 490-550)
FastBegin ==
    /\ pc = "idle"
    /\ aligner = "rtf_exhaustive"
    /\ LET maxshift == set_default(params, "maxshift", this_img.nx \div 8)
           given == set_default(params, "flip", 0) # 0
           half_maxshift == maxshift \div 2
       IN  IF FastMaxShiftTooSmall(maxshift)
           THEN Returned(Ret("InvalidParameterException", NullImg, this_img, {}, {}))
           ELSE IF IsNull(to)
           THEN \E ub \in UBOutcomes : Returned(Ret(ub, NullImg, this_img, {}, {}))
           ELSE /\ pc' = "fast1"
                /\ live' = FastSetupLive
                /\ log' = {"math.medianshrink", "unwrap", "copy"}
                            \cup (IF given THEN {} ELSE {"xform.flip"})
                            \cup DeleteFlipped(~given)
                /\ srch' = [Search(1, maxshift, -half_maxshift, -half_maxshift,
                                   Best(FltMax, 0, 1, 0, 0, 0), NoStage1)
                              EXCEPT !.ur2 = Ur2(to, maxshift), !.ur = Ur(to, maxshift)]
                /\ Started

\* one pass of the loops of lines 551-620
FastStage1 ==
    /\ pc = "fast1"
    /\ LET half_maxshift == srch.maxshift \div 2
           dx == srch.dx
           dy == srch.dy
           next == IF dx < half_maxshift THEN [srch EXCEPT !.dx = dx + 1]
                   ELSE [srch EXCEPT !.dx = -half_maxshift, !.dy = dy + 1]
       IN  /\ dy <= half_maxshift
           /\ IF InDisk(dx, dy, half_maxshift)
              THEN \E cm0 \in Scores, cm1 \in Scores, i0 \in 0..MaxAngIdx,
                      i1 \in 0..MaxAngIdx :
                     /\ srch' = [next EXCEPT
                                   !.best = FastScore(srch.best, dx, dy, Xst(this_img) \div 2,
                                                      cm0, i0, cm1, i1),
                                   !.scored = TRUE, !.at = <<dx, dy>>,
                                   !.refs = {"to_shrunk_unwrapped",
                                             "to_shrunk_flipped_unwrapped"}]
                     /\ log' = log \cup {"calc_ccfx", "cmp"}
              ELSE /\ srch' = next
                   /\ log' = log
    /\ UNCHANGED <<pc, live>>
    /\ Inside

\* lines 621-651: stage 1 is over, stage 2 starts around its winner
FastBetween ==
    /\ pc = "fast1"
    /\ srch.dy > srch.maxshift \div 2
    /\ LET bestdx == 2 * srch.best.dx
           bestdy == 2 * srch.best.dy
       IN  srch' = [Search(2, srch.maxshift, bestdy - 3, bestdx - 3,
                           [srch.best EXCEPT !.val = FltMax, !.dx = bestdx, !.dy = bestdy],
                           Stage1(srch.best))
                      EXCEPT !.ur2 = srch.ur2, !.ur = Ur(this_img, srch.maxshift)]
    /\ pc' = "fast2"
    /\ live' = live \ FastStage1Live
    /\ log' = log
    /\ Inside

\* one pass of the loops of lines 655-725; srch.s1 holds bestdx2, bestdy2 (halved)
FastStage2 ==
    /\ pc = "fast2"
    /\ LET bestdx2 == 2 * srch.s1.dx
           bestdy2 == 2 * srch.s1.dy
           dx == srch.dx
           dy == srch.dy
           next == IF dx < bestdx2 + 3 THEN [srch EXCEPT !.dx = dx + 1]
                   ELSE [srch EXCEPT !.dx = bestdx2 - 3, !.dy = dy + 1]
       IN  /\ dy <= bestdy2 + 3
           /\ IF InDisk(dx, dy, srch.maxshift)
              THEN \E cm0 \in Scores, cm1 \in Scores, i0 \in 0..MaxAngIdx,
                      i1 \in 0..MaxAngIdx :
                     /\ srch' = [next EXCEPT
                                   !.best = FastScore(srch.best, dx, dy, Xst(this_img),
                                                      cm0, i0, cm1, i1),
                                   !.scored = TRUE, !.at = <<dx, dy>>,
                                   !.refs = {"to_unwrapped", "to_flip_unwrapped"}]
                     /\ log' = log \cup {"calc_ccfx", "cmp"}
              ELSE /\ srch' = next
                   /\ log' = log
    /\ UNCHANGED <<pc, live>>
    /\ Inside

\* lines 726-743
FastFinish ==
    /\ pc = "fast2"
    /\ srch.dy > 2 * srch.s1.dy + 3
    /\ pc' = "returned"
    /\ outcome' = "image"
    /\ result' = FastResult(this_img, srch.best)
    /\ live' = {}
    /\ log' = log \cup {"copy", "transform"}
    /\ UNCHANGED <<aligner, this_img, to, params, branch, found, srch>>

\* RTFSlowExhaustiveAligner::align up to the first candidate of stage 1 (lines 751-795)
SlowBegin ==
    /\ pc = "idle"
    /\ aligner = "rtf_slow_exhaustive"
    /\ LET given == set_default(params, "flip", 0) # 0
           cfg == set_default(params, "maxshift", -1)
           maxshift == IF cfg < 0 THEN this_img.nx \div 10 ELSE cfg
           half_maxshift == maxshift \div 2
           held == {"this_img_copy"} \cup (IF given THEN {} ELSE {"flipped"})
           lg == {"copy"} \cup (IF given THEN {} ELSE {"xform.flip"})
       IN  IF ~given /\ IsNull(to)
           THEN \E ub \in UBOutcomes :
                  Returned(Ret(ub, NullImg, this_img, {"this_img_copy"}, {"copy"}))
           ELSE IF TransStep(params) <= 0 \/ AngStep(params) < 0
           THEN Returned(Ret("InvalidParameterException", NullImg, this_img, held, lg))
           ELSE IF IsNull(to)
           THEN \E ub \in UBOutcomes :
                  Returned(Ret(ub, NullImg, this_img, held \cup {"this_img_shrink"},
                               lg \cup {"math.medianshrink"}))
           ELSE /\ pc' = "slow1"
                /\ live' = held \cup {"this_img_shrink", "to_shrunk", "flipped_shrunk"}
                /\ log' = lg \cup {"math.medianshrink"}
                /\ srch' = Search(1, maxshift, -half_maxshift * HalfPx,
                                  -half_maxshift * HalfPx,
                                  Best(FltMax, 0, AngStep(params), 0, 0, 0), NoStage1)
                /\ Started

\* one pass of the loops of lines 798-829 over dy and dx, with its loop over the angles
SlowStage1 ==
    /\ pc = "slow1"
    /\ LET half == (srch.maxshift \div 2) * HalfPx
           dx == srch.dx
           dy == srch.dy
           next == IF dx + HalfPx <= half THEN [srch EXCEPT !.dx = dx + HalfPx]
                   ELSE [srch EXCEPT !.dx = -half, !.dy = dy + HalfPx]
       IN  /\ dy <= half
           /\ IF InDisk(dx, dy, srch.maxshift * HalfPx)
              THEN \E b \in AngleLoop({srch.best},
                                      Stage1Angles(-2, StepsPerTurn(params, this_img)),
                                      dx, dy) :
                     /\ srch' = [next EXCEPT
                                   !.best = b, !.scored = TRUE, !.at = <<dx, dy>>,
                                   !.angs = Stage1Angles(-2, StepsPerTurn(params,
                                                                          this_img)),
                                   !.refs = {"to_shrunk", "flipped_shrunk"}]
                     /\ log' = log \cup {"transform", "cmp"}
              ELSE /\ srch' = next
                   /\ log' = log
    /\ UNCHANGED <<pc, live>>
    /\ Inside

\* lines 831-853: stage 1 is over, stage 2 starts around its winner
SlowBetween ==
    /\ pc = "slow1"
    /\ srch.dy > (srch.maxshift \div 2) * HalfPx
    /\ LET bestdx == 2 * srch.best.dx
           bestdy == 2 * srch.best.dy
       IN  \E strict \in (IF is_same_size(this_img, to) THEN {FALSE} ELSE BOOLEAN) :
             srch' = [Search(2, srch.maxshift, bestdy - 3 * HalfPx, bestdx - 3 * HalfPx,
                             [srch.best EXCEPT !.val = FltMax, !.dx = bestdx,
                                               !.dy = bestdy],
                             [val |-> srch.best.val, dx |-> bestdx, dy |-> bestdy,
                              ang |-> srch.best.ang])
                        EXCEPT !.strict = strict]
    /\ pc' = "slow2"
    /\ live' = live \ {"this_img_shrink", "to_shrunk", "flipped_shrunk"}
    /\ log' = log
    /\ Inside

\* one pass of the loops of lines 855-887 over dy and dx, with its loop over the angles;
\* srch.s1 holds bestdx2, bestdy2 and bestang2
SlowStage2 ==
    /\ pc = "slow2"
    /\ LET ts == TransStep(params)
           dx == srch.dx
           dy == srch.dy
           next == IF dx + ts <= srch.s1.dx + 3 * HalfPx THEN [srch EXCEPT !.dx = dx + ts]
                   ELSE [srch EXCEPT !.dx = srch.s1.dx - 3 * HalfPx, !.dy = dy + ts]
       IN  /\ dy <= srch.s1.dy + 3 * HalfPx
           /\ IF ~InDisk(dx, dy, srch.maxshift * HalfPx)
              THEN /\ srch' = next
                   /\ UNCHANGED <<pc, live, log, outcome>>
              ELSE IF Mismatch(srch.strict, this_img, to)
              THEN /\ pc' = "returned"
                   /\ outcome' = "ImageFormatException"
                   /\ log' = log \cup {"transform", "cmp"}
                   /\ UNCHANGED <<live, srch>>
              ELSE /\ \E b \in AngleLoop({srch.best}, Stage2Angles(srch.s1.ang), dx, dy) :
                        srch' = [next EXCEPT !.best = b, !.scored = TRUE,
                                             !.at = <<dx, dy>>,
                                             !.angs = Stage2Angles(srch.s1.ang),
                                             !.refs = {"to", "flipped"}]
                   /\ log' = log \cup {"transform", "cmp"}
                   /\ UNCHANGED <<pc, live, outcome>>
    /\ UNCHANGED <<aligner, this_img, to, params, result, branch, found>>

\* lines 889-902
SlowFinish ==
    /\ pc = "slow2"
    /\ srch.dy > srch.s1.dy + 3 * HalfPx
    /\ pc' = "returned"
    /\ outcome' = "image"
    /\ result' = SlowResult(this_img, srch.best)
    /\ live' = {}
    /\ log' = log \cup {"transform"}
                   \cup DeleteFlipped(set_default(params, "flip", 0) = 0)
    /\ UNCHANGED <<aligner, this_img, to, params, branch, found, srch>>

\* the members of a CUDA_Aligner (image_stack, ccf: the buffer is allocated; NIMA),
\* the number of insert_image calls made, and ref_image of alignment_2d
CudaState(image_stack, ccf, nima, inserted) ==
    [stage |-> 0, image_stack |-> image_stack, ccf |-> ccf, NIMA |-> nima,
     inserted |-> inserted, ref_image |-> FALSE]

\* CUDA_Aligner::setup (lines 1091-1104): the two malloc calls succeed or return the
\* null pointer; setup returns nothing either way
CudaSetup ==
    /\ pc = "idle"
    /\ aligner = "cuda"
    /\ \E image_stack \in BOOLEAN, ccf \in BOOLEAN, nima \in CudaBatches :
          srch' = CudaState(image_stack, ccf, nima, 0)
    /\ pc' = "setup"
    /\ live' = {"image_stack", "ccf"}
    /\ log' = {"setup"}
    /\ UNCHANGED <<aligner, this_img, to, params, outcome, result, branch, found>>

\* CUDA_Aligner::insert_image (lines 1106-1111): the samples are written into
\* image_stack, through the null pointer when its allocation failed
CudaInsertImage ==
    /\ pc = "setup"
    /\ srch.inserted < srch.NIMA
    /\ IF srch.image_stack
       THEN /\ srch' = [srch EXCEPT !.inserted = @ + 1]
            /\ UNCHANGED <<pc, outcome>>
       ELSE /\ \E ub \in UBOutcomes : outcome' = ub
            /\ pc' = "returned"
            /\ UNCHANGED srch
    /\ log' = log \cup {"insert_image"}
    /\ UNCHANGED <<aligner, this_img, to, params, result, live, branch, found>>

\* CUDA_Aligner::alignment_2d (lines 1113-1159): ref_image is allocated, or not, and
\* written; calculate_ccf reads image_stack and ref_image and writes ccf; the maxima
\* of ccf are returned, four numbers for each image; ref_image is not released
CudaAlignment2d ==
    /\ pc = "setup"
    /\ srch.inserted = srch.NIMA
    /\ \E ref_image \in BOOLEAN :
          /\ srch' = [srch EXCEPT !.ref_image = ref_image]
          /\ IF ref_image /\ srch.image_stack /\ srch.ccf
             THEN /\ outcome' = "vector"
                  /\ log' = log \cup {"alignment_2d", "calculate_ccf"}
             ELSE /\ \E ub \in UBOutcomes : outcome' = ub
                  /\ log' = log \cup {"alignment_2d"}
                                \cup (IF ref_image THEN {"calculate_ccf"} ELSE {})
    /\ pc' = "returned"
    /\ live' = live \cup {"ref_image"}
    /\ UNCHANGED <<aligner, this_img, to, params, result, branch, found>>

Next ==
    \/ Translational
    \/ Rotational
    \/ RotatePrecenter
    \/ RotateTranslate
    \/ RotateFlip
    \/ RotateTranslateFlip
    \/ RefineBegin
    \/ RefineIterate
    \/ RefineFinish
    \/ FastBegin
    \/ FastStage1
    \/ FastBetween
    \/ FastStage2
    \/ FastFinish
    \/ SlowBegin
    \/ SlowStage1
    \/ SlowBetween
    \/ SlowStage2
    \/ SlowFinish
    \/ CudaSetup
    \/ CudaInsertImage
    \/ CudaAlignment2d

Spec == Init /\ [][Next]_vars

----------------------------------------------------------------------------
(* Properties *)

\* the call is over
Done == pc = "returned"

\* the call is over and returned an image
GaveImage == Done /\ outcome = "image"

Dims(img) == <<img.nx, img.ny, img.nz>>

\* a caller's image holds what it held before the call
Untouched(img) ==
    \/ IsNull(img)
    \/ img \in {CallerImg(img.nx, img.ny, img.nz), CarriedImg(img.nx, img.ny, img.nz),
                DotImg(img.nx, img.ny, img.dot)}

\* the reference is there and its size is not the moving image's
SizesDiffer == ~IsNull(this_img) /\ ~IsNull(to) /\ Dims(this_img) # Dims(to)

TwoBranch == {"rotational", "rotate_translate", "rotate_flip", "rotate_translate_flip"}

\* which candidate the returned image is, read off the image: the second candidate of
\* rotational and rotate_translate carries the angle lowered by 180 degrees, the second
\* candidate of the flip strategies has been mirrored in place
BranchReturned ==
    IF aligner \in {"rotational", "rotate_translate"}
    THEN (IF result.a2d.alpha < 0 THEN 2 ELSE 1)
    ELSE (IF result.flips > 0 THEN 2 ELSE 1)

Abs(x) == IF x < 0 THEN -x ELSE x
Min(a, b) == IF a < b THEN a ELSE b
Max(a, b) == IF a < b THEN b ELSE a

\* C1: whenever align returns a non-null image, of whatever strategy, that image has
\* the (nx, ny, nz) of the moving image.
C1_OutputDims == GaveImage => Dims(result) = Dims(this_img)

\* rotate_precenter returned an image of another size
C1_PrecenterReturnsRow ==
    /\ GaveImage
    /\ aligner = "rotate_precenter"
    /\ Dims(result) # Dims(this_img)

\* C2: a call of rotational, refine or an exhaustive strategy without a reference ends
\* in an invalid-input failure: an exception, not a return and not a computation on the
\* missing reference.
C2_NullReferenceFails ==
    (/\ Done
     /\ IsNull(to)
     /\ aligner \in {"rotational", "refine", "rtf_exhaustive", "rtf_slow_exhaustive"})
    => outcome \in Exceptions

\* refine without a reference returned the null pointer
C2_RefineReturnsNull ==
    /\ Done
    /\ aligner = "refine"
    /\ IsNull(to)
    /\ outcome = "null"

\* C3: given a reference of another size, every strategy fails with a dimension error
\* before any correlation, footprint, search or optimisation step, and returns no
\* image (a call that fails on its configuration first is left aside).
C3_SizesCheckedFirst ==
    (Done /\ SizesDiffer /\ outcome # "InvalidParameterException")
    => /\ outcome = "ImageDimensionException"
       /\ log = {}
       /\ result = NullImg

\* rotational made the footprints of two images of different sizes
C3_FootprintsOfMismatch ==
    /\ Done
    /\ aligner = "rotational"
    /\ SizesDiffer
    /\ "this_img->make_rotational_footprint_e1" \in log
    /\ "to->make_rotational_footprint_e1" \in log

\* C4: when rtf_slow_exhaustive raises the configuration error for transtep or angstep,
\* it has made no copy, flip, shrink or comparator call.
C4_StepsCheckedFirst ==
    (Done /\ aligner = "rtf_slow_exhaustive" /\ outcome = "InvalidParameterException")
    => log = {}

\* rtf_slow_exhaustive raised the configuration error after copying the moving image
\* and mirroring the reference
C4_CopiedBeforeCheck ==
    /\ Done
    /\ aligner = "rtf_slow_exhaustive"
    /\ outcome = "InvalidParameterException"
    /\ {"copy", "xform.flip"} \subseteq log

\* C5: when a call is over, on whatever path, every image it allocated other than the
\* one it returned has been released.
C5_IntermediatesReleased == Done => live = {}

\* rtf_slow_exhaustive raised the configuration error holding the copy of the moving
\* image and the mirrored reference
C5_LeakOnValidation ==
    /\ Done
    /\ aligner = "rtf_slow_exhaustive"
    /\ outcome = "InvalidParameterException"
    /\ {"this_img_copy", "flipped"} \subseteq live

\* C6: when a call is over the caller's two images hold what they held before it, and
\* an image returned is a new object: not the moving image, not the reference, not a
\* correlation buffer.
C6_InputsUntouched ==
    Done => /\ Untouched(this_img)
            /\ Untouched(to)
            /\ outcome = "image" => result.origin \in {"process", "copy"}

\* rotate_precenter rotated the caller's moving image in place and returned the
\* correlation buffer
C6_PrecenterRotatesInPlace ==
    /\ GaveImage
    /\ aligner = "rotate_precenter"
    /\ this_img.rev > 0
    /\ result.origin = "calc_ccfx"

\* C7, as the specification states it: in a two-branch strategy, when the two scores
\* are equal, the first candidate (0 degrees, not mirrored) is returned.
C7_TieKeepsFirst ==
    (GaveImage /\ aligner \in TwoBranch /\ branch.cmp1 = branch.cmp2)
    => BranchReturned = 1

\* C7, as the code has it: in a two-branch strategy, when the two scores are equal,
\* the second candidate (180 degrees, mirrored) is returned.
C7_TieKeepsSecond ==
    (GaveImage /\ aligner \in TwoBranch /\ branch.cmp1 = branch.cmp2)
    => /\ BranchReturned = 2
       /\ branch.taken = 2

\* rotate_translate_flip returned its mirrored candidate on a tie
C7_Tie ==
    /\ GaveImage
    /\ aligner = "rotate_translate_flip"
    /\ branch.cmp1 = branch.cmp2
    /\ result.a2d.mirror

\* C8: in a two-branch strategy, when the two scores differ, the candidate of the
\* strictly lower score is returned, with that score, and the other is released.
C8_LowerScoreKept ==
    (GaveImage /\ aligner \in TwoBranch /\ branch.cmp1 # branch.cmp2)
    => /\ BranchReturned = (IF branch.cmp1 < branch.cmp2 THEN 1 ELSE 2)
       /\ result.cmpval = Min(branch.cmp1, branch.cmp2)
       /\ live = {}

\* rotate_translate kept its first candidate, of the lower score
C8_FirstLower ==
    /\ GaveImage
    /\ aligner = "rotate_translate"
    /\ branch.cmp1 < branch.cmp2
    /\ result.a2d.alpha >= 0

\* C9: the search bound of each axis of translational is the configured maxshift when
\* that is positive and a eighth of the extent otherwise, lowered to half the extent
\* less one, and 0 on an axis of extent 1; it lies in 0..max(0, extent/2 - 1).
C9_EffectiveMaxShift ==
    (GaveImage /\ aligner = "translational")
    => \A i \in 1..3 :
         LET n == Dims(this_img)[i]
             positive == "maxshift" \in DOMAIN params /\ params["maxshift"] > 0
             base == IF positive THEN params["maxshift"] ELSE n \div 8
             bound == found.maxshift[i]
         IN  /\ bound = (IF n = 1 THEN 0 ELSE Min(base, n \div 2 - 1))
             /\ 0 <= bound
             /\ bound <= Max(0, n \div 2 - 1)

\* a configured maxshift above half the extent less one was lowered to it
C9_Clamped ==
    /\ GaveImage
    /\ aligner = "translational"
    /\ "maxshift" \in DOMAIN params
    /\ this_img.nx > 1
    /\ params["maxshift"] > this_img.nx \div 2 - 1
    /\ found.maxshift[1] = this_img.nx \div 2 - 1

\* C10: the translation translational reports (in half pixels) is the negated peak
\* with a reference; without one it is half the negated peak, each component rounded
\* to a nearest whole pixel when intonly is set.
C10_ReportedTranslation ==
    (GaveImage /\ aligner = "translational" /\ this_img.ny # 1)
    => LET xf == IF this_img.nz # 1 THEN result.a3d ELSE result.a2d
           t == <<xf.tx, xf.ty, xf.tz>>
           intonly == "intonly" \in DOMAIN params /\ params["intonly"] # 0
       IN  /\ xf.has
           /\ \A i \in 1..3 :
                IF ~IsNull(to) THEN t[i] = -HalfPx * found.peak[i]
                ELSE IF intonly
                THEN /\ t[i] % HalfPx = 0
                     /\ 2 * Abs(t[i] + found.peak[i]) <= HalfPx
                ELSE t[i] = -found.peak[i]

\* without a reference and with intonly, an odd peak was halved and rounded
C10_HalvedAndRounded ==
    /\ GaveImage
    /\ aligner = "translational"
    /\ IsNull(to)
    /\ "intonly" \in DOMAIN params
    /\ params["intonly"] = 1
    /\ found.peak[1] = -1
    /\ result.a2d.tx = HalfPx

\* C11: translational stores the translation under xform.align3d when nz is not 1 and
\* under xform.align2d otherwise, never under both, with a z translation of 0 under
\* xform.align2d.
C11_TransformKey ==
    (GaveImage /\ aligner = "translational")
    => IF this_img.nz # 1
       THEN result.a3d.has /\ ~result.a2d.has
       ELSE result.a2d.has /\ ~result.a3d.has /\ result.a2d.tz = 0

\* translational returned the translated copy of a 1D image with no transform stored
\* under either key
C11_NoKeyFor1D ==
    /\ GaveImage
    /\ aligner = "translational"
    /\ this_img.ny = 1
    /\ this_img.nz = 1
    /\ this_img.nx >= 8
    /\ found.peak[1] # 0
    /\ ~result.a2d.has
    /\ ~result.a3d.has

\* C12: rotational and rotate_translate store the footprint's angle estimate when the
\* candidate returned is the one not turned, and the estimate less 180 degrees when
\* it is the one turned by 180 degrees.
C12_AngleOfBranch ==
    (GaveImage /\ aligner \in {"rotational", "rotate_translate"})
    => /\ result.a2d.has
       /\ result.a2d.den = RfpNx
       /\ result.turns \in {0, 1}
       /\ result.turns = 0 => result.a2d.alpha = found.angle
       /\ result.turns = 1 => result.a2d.alpha = found.angle - RfpNx
       /\ branch.taken = result.turns + 1

\* rotate_translate returned the candidate turned by 180 degrees, with the estimate
\* less 180 degrees
C12_TurnedReturned ==
    /\ GaveImage
    /\ aligner = "rotate_translate"
    /\ result.turns = 1
    /\ found.angle > 0
    /\ result.a2d.alpha = found.angle - RfpNx

\* C13: rotate_flip and rotate_translate_flip return a transform with mirror set
\* exactly when the candidate aligned to the mirrored reference is returned, and
\* exactly then the image has been flipped about x once; the other candidate is
\* returned not flipped, with mirror not set.
C13_MirrorOfBranch ==
    (GaveImage /\ aligner \in {"rotate_flip", "rotate_translate_flip"})
    => /\ branch.taken = 2 => (result.a2d.mirror /\ result.flips = 1)
       /\ branch.taken = 1 => (~result.a2d.mirror /\ result.flips = 0)

\* rotate_flip returned the candidate aligned to the reference as given, not flipped,
\* with the mirror flag of the transform the moving image carried
C13_StaleMirror ==
    /\ GaveImage
    /\ aligner = "rotate_flip"
    /\ this_img.a2d.mirror
    /\ branch.cmp1 < branch.cmp2
    /\ branch.taken = 1
    /\ result.flips = 0
    /\ result.a2d.mirror

\* a search of an exhaustive strategy has scored a candidate in the stage it is in
Scored == aligner \in {"rtf_exhaustive", "rtf_slow_exhaustive"} /\ srch.stage \in {1, 2}
          /\ srch.scored

\* the squared norm of the candidate scored last
AtNorm2 == srch.at[1] * srch.at[1] + srch.at[2] * srch.at[2]

\* the candidate scored last is a corner of the square the two loops range over
AtCorner ==
    LET unit == IF aligner = "rtf_exhaustive" THEN 1 ELSE HalfPx
        half == (srch.maxshift \div 2) * unit
        cx == IF srch.stage = 1 THEN 0
              ELSE IF aligner = "rtf_exhaustive" THEN 2 * srch.s1.dx ELSE srch.s1.dx
        cy == IF srch.stage = 1 THEN 0
              ELSE IF aligner = "rtf_exhaustive" THEN 2 * srch.s1.dy ELSE srch.s1.dy
        reach == IF srch.stage = 1 THEN half ELSE 3 * unit
    IN  /\ Abs(srch.at[1] - cx) = reach
        /\ Abs(srch.at[2] - cy) = reach

\* the candidate scored last lies in the disk of its stage: of radius maxshift / 2 in
\* stage 1 of rtf_exhaustive, of radius maxshift otherwise
AtInDisk ==
    IF aligner = "rtf_exhaustive"
    THEN IF srch.stage = 1 THEN 4 * AtNorm2 <= srch.maxshift * srch.maxshift
         ELSE AtNorm2 <= srch.maxshift * srch.maxshift
    ELSE AtNorm2 <= (HalfPx * srch.maxshift) * (HalfPx * srch.maxshift)

\* C14, as the specification states it: a candidate is scored only inside the disk of
\* its stage, and no corner of the square the loops range over is ever scored.
C14_DiskAndNoCorner == Scored => (AtInDisk /\ ~AtCorner)

\* C14, as the code has it: a candidate is scored only inside the disk of its stage,
\* and in stage 1 of rtf_exhaustive no corner of the square is scored.
C14_ScoredInDisk ==
    Scored => /\ AtInDisk
              /\ (aligner = "rtf_exhaustive" /\ srch.stage = 1) => ~AtCorner

\* stage 1 of rtf_slow_exhaustive scored a corner of the square its loops range over:
\* the loops stop at maxshift / 2 and the disk has radius maxshift
C14_CornerOfSquare ==
    /\ Scored
    /\ aligner = "rtf_slow_exhaustive"
    /\ srch.stage = 1
    /\ srch.maxshift >= 2
    /\ AtCorner
    /\ AtInDisk
    /\ srch.at # <<0, 0>>

\* C15: when an exhaustive strategy returns, the best score stage 2 holds is not above
\* the best score stage 1 found.
C15_Stage2NotWorse ==
    (GaveImage /\ aligner \in {"rtf_exhaustive", "rtf_slow_exhaustive"})
    => srch.best.val <= srch.s1.val

\* rtf_exhaustive returned the best candidate of stage 2, which scored above the best
\* candidate of stage 1
C15_Stage2Worse ==
    /\ GaveImage
    /\ aligner = "rtf_exhaustive"
    /\ srch.scored
    /\ srch.s1.val < FltMax
    /\ srch.best.val < FltMax
    /\ srch.best.val > srch.s1.val

\* C16: when refine returns without the size test having passed and without a failure
\* of the minimiser, it has performed exactly maxiter iterations (28 by default), and
\* it returns an image all the same.
C16_StopsAtMaxIter ==
    (/\ Done
     /\ aligner = "refine"
     /\ srch.stage = 1
     /\ srch.rval = GSL_CONTINUE
     /\ srch.status = GSL_SUCCESS)
    => /\ outcome = "image"
       /\ srch.iter - 1 = set_default(params, "maxiter", DefaultMaxIter)

\* refine, maxiter not configured, returned an image at the cap after 27 iterations
C16_StopsOneShort ==
    /\ GaveImage
    /\ aligner = "refine"
    /\ "maxiter" \notin DOMAIN params
    /\ srch.rval = GSL_CONTINUE
    /\ srch.status = GSL_SUCCESS
    /\ srch.iter = DefaultMaxIter
    /\ "gsl_multimin_fminimizer_iterate" \in log

\* C17: in refine the mirror flag is that of the seed transform (not set without a
\* seed); every evaluation of the objective reads that value, and it is the mirror
\* flag of the transform of the result.
C17_MirrorFixed ==
    (aligner = "refine" /\ srch.stage = 1)
    => LET seeded == /\ "xform.align2d" \in DOMAIN params
                     /\ params["xform.align2d"] = 2
       IN  /\ srch.mirror = seeded
           /\ srch.evals = {seeded}
           /\ outcome = "image" => result.a2d.mirror = seeded

\* refine, seeded with a mirrored transform, returned a mirrored transform after
\* several iterations
C17_SeededMirror ==
    /\ GaveImage
    /\ aligner = "refine"
    /\ "xform.align2d" \in DOMAIN params
    /\ params["xform.align2d"] = 2
    /\ srch.iter > 2
    /\ result.a2d.mirror

\* C18: rtf_exhaustive with a maxshift below 2, configured or taken from nx / 8,
\* raises the configuration error having made no shrink, unwrap, flip or comparator
\* call and holding no image.
C18_FastMaxShiftChecked ==
    (/\ Done
     /\ aligner = "rtf_exhaustive"
     /\ (IF "maxshift" \in DOMAIN params THEN params["maxshift"]
         ELSE this_img.nx \div 8) < 2)
    => /\ outcome = "InvalidParameterException"
       /\ log = {}
       /\ live = {}
       /\ result = NullImg

\* rtf_exhaustive refused the default maxshift of an 8x8 image
C18_DefaultRefused ==
    /\ Done
    /\ aligner = "rtf_exhaustive"
    /\ "maxshift" \notin DOMAIN params
    /\ this_img.nx = 8
    /\ ~IsNull(to)
    /\ outcome = "InvalidParameterException"

\* the footprint calls of the convention m, on the moving image and on the reference
ConventionCalls(m) ==
    CASE m = 0 -> {"this_img->make_rotational_footprint_e1",
                   "to->make_rotational_footprint_e1"}
      [] m = 1 -> {"this_img->make_rotational_footprint", "to->make_rotational_footprint"}
      [] m = 2 -> {"this_img->make_rotational_footprint_cmc",
                   "to->make_rotational_footprint_cmc"}
      [] OTHER -> {}

AllFootprintCalls == ConventionCalls(0) \cup ConventionCalls(1) \cup ConventionCalls(2)

\* C19: in rotational and rotate_translate an rfp_mode outside {0, 1, 2} raises the
\* configuration error with no footprint made; with 0, 1 or 2 the footprints made are
\* those of that one convention, of the moving image and of the reference.
C19_FootprintMode ==
    (Done /\ aligner \in {"rotational", "rotate_translate"})
    => LET mode == IF "rfp_mode" \in DOMAIN params THEN params["rfp_mode"] ELSE 0
       IN  /\ mode \notin {0, 1, 2}
               => /\ outcome = "InvalidParameterException"
                  /\ log = {}
                  /\ live = {}
           /\ (mode \in {0, 1, 2} /\ ~IsNull(to))
               => log \cap AllFootprintCalls = ConventionCalls(mode)

\* rotate_translate used the third convention on both images and returned an image
C19_ThirdConvention ==
    /\ GaveImage
    /\ aligner = "rotate_translate"
    /\ "rfp_mode" \in DOMAIN params
    /\ params["rfp_mode"] = 2
    /\ "to->make_rotational_footprint_cmc" \in log

\* an allocation of the accelerated backend has failed
CudaAllocFailed ==
    /\ aligner = "cuda"
    /\ pc # "idle"
    /\ \/ ~srch.image_stack
       \/ ~srch.ccf
       \/ ("alignment_2d" \in log /\ ~srch.ref_image)

\* C20: once an allocation of the accelerated backend has failed, the batch fails: no
\* result is returned, and no insert_image or calculate_ccf runs on the buffer that
\* was not allocated.
C20_AllocationChecked ==
    (CudaAllocFailed /\ Done)
    => /\ outcome \in Exceptions
       /\ "insert_image" \notin log
       /\ "calculate_ccf" \notin log

\* the allocation of image_stack failed in setup and insert_image wrote through the
\* null pointer
C20_InsertIntoNull ==
    /\ Done
    /\ aligner = "cuda"
    /\ ~srch.image_stack
    /\ "insert_image" \in log
    /\ outcome \in UBOutcomes

ShiftsOfReference ==
    { s \in PeakSet(found.maxshift[1], found.maxshift[2], 0) :
        /\ (this_img.dot[1] + s[1]) % this_img.nx = to.dot[1]
        /\ (this_img.dot[2] + s[2]) % this_img.ny = to.dot[2] }

Stage2Centre ==
    IF aligner = "rtf_exhaustive" THEN <<2 * srch.s1.dx, 2 * srch.s1.dy>>
    ELSE <<srch.s1.dx, srch.s1.dy>>

Stage2Reach == IF aligner = "rtf_exhaustive" THEN 3 ELSE 3 * HalfPx

Stage2Step ==
    IF aligner = "rtf_exhaustive" THEN 1
    ELSE IF "transtep" \in DOMAIN params THEN params["transtep"] ELSE DefaultTransStep

\* C23: a candidate scored in stage 2 of an exhaustive strategy lies within 3 pixels,
\* on each axis, of twice the winner of stage 1, a whole number of steps (1 pixel,
\* transtep) from the low end of that window; in rtf_slow_exhaustive it is scored at
\* the 13 angles from 6 steps below the winning angle of stage 1 to 6 steps above it,
\* one step apart.
C23_Stage2Window ==
    (Scored /\ srch.stage = 2)
    => /\ \A i \in 1..2 :
            /\ Abs(srch.at[i] - Stage2Centre[i]) <= Stage2Reach
            /\ (srch.at[i] - (Stage2Centre[i] - Stage2Reach)) % Stage2Step = 0
       /\ aligner = "rtf_slow_exhaustive"
            => /\ Len(srch.angs) = 13
               /\ \A i \in 1..13 : srch.angs[i] = srch.s1.ang - 7 + i
               /\ Abs(srch.best.ang - srch.s1.ang) <= 6

\* stage 2 of rtf_slow_exhaustive scored a candidate one pixel from a winner of stage 1
\* that is not the origin, at 13 angles
C23_SlowWindowEdge ==
    /\ Scored
    /\ srch.stage = 2
    /\ aligner = "rtf_slow_exhaustive"
    /\ Stage2Centre # <<0, 0>>
    /\ srch.at[1] - Stage2Centre[1] = HalfPx
    /\ srch.angs[13] = srch.s1.ang + 6

\* stage 1 of rtf_slow_exhaustive has scored a candidate
SlowStage1Scored == Scored /\ aligner = "rtf_slow_exhaustive" /\ srch.stage = 1

\* C24, as the specification states it: in stage 1 of rtf_slow_exhaustive consecutive
\* angles differ by one angstep, and a candidate is scored against the shrunk
\* reference and against the mirrored shrunk reference.
C24_AngleStepOne ==
    SlowStage1Scored
    => /\ \A i \in 1..(Len(srch.angs) - 1) : srch.angs[i + 1] - srch.angs[i] = 1
       /\ srch.refs = {"to_shrunk", "flipped_shrunk"}

\* C24, as the code has it: in stage 1 of rtf_slow_exhaustive the angles start two
\* angsteps below 0, consecutive angles differ by four angsteps and they go on up to a
\* full turn; a candidate is scored against the shrunk reference and against the
\* mirrored shrunk reference.
C24_AngleStepFour ==
    SlowStage1Scored
    => /\ Len(srch.angs) >= 1
       /\ srch.angs[1] = -2
       /\ \A i \in 1..(Len(srch.angs) - 1) : srch.angs[i + 1] - srch.angs[i] = 4
       /\ srch.angs[Len(srch.angs)] <= StepsPerTurn(params, this_img)
       /\ srch.angs[Len(srch.angs)] + 4 > StepsPerTurn(params, this_img)
       /\ srch.refs = {"to_shrunk", "flipped_shrunk"}

\* stage 1 of rtf_slow_exhaustive, angstep 90 degrees, scored a candidate at -180 and
\* at 180 degrees, and holds a best candidate that is a mirrored one
C24_TwoAnglesOfNinety ==
    /\ SlowStage1Scored
    /\ "angstep" \in DOMAIN params
    /\ params["angstep"] = 90
    /\ srch.angs = <<-2, 2>>
    /\ srch.best.flip = 1

\* C25: the translation of the transform rtf_slow_exhaustive returns has a norm of at
\* most maxshift, and it is a candidate stage 2 scored: stage 2 scores a candidate
\* whatever the winner of stage 1, and the best score is not left at FLT_MAX.
C25_ReturnedWasScored ==
    (GaveImage /\ aligner = "rtf_slow_exhaustive")
    => /\ result.a2d.tx * result.a2d.tx + result.a2d.ty * result.a2d.ty
            <= (HalfPx * srch.maxshift) * (HalfPx * srch.maxshift)
       /\ srch.scored
       /\ srch.best.val < FltMax

\* rtf_slow_exhaustive, maxshift 2 and transtep 7, returned twice the winner of stage
\* 1, (-2, -2), outside the disk of radius 2, stage 2 having scored no candidate
C25_UnrefinedOutside ==
    /\ GaveImage
    /\ aligner = "rtf_slow_exhaustive"
    /\ srch.maxshift = 2
    /\ ~srch.scored
    /\ srch.best.val = FltMax
    /\ srch.s1.val < FltMax
    /\ result.a2d.tx = -2 * HalfPx
    /\ result.a2d.ty = -2 * HalfPx

\* the strategies that take a mirrored reference of the caller under flip
TakesFlip == {"rotate_translate_flip", "rtf_exhaustive", "rtf_slow_exhaustive"}

\* C26: rotate_translate_flip and the exhaustive strategies never delete a mirrored
\* reference the caller supplied under flip; one they made themselves is deleted by
\* the time they return an image, and no candidate is scored against it afterwards.
C26_FlippedOwnership ==
    aligner \in TakesFlip
    => /\ "flip" \in DOMAIN params => "delete flipped" \notin log
       /\ (GaveImage /\ "flip" \notin DOMAIN params)
            => /\ "xform.flip" \in log
               /\ "delete flipped" \in log
               /\ "flipped" \notin live
       /\ ("delete flipped" \in log /\ aligner = "rtf_slow_exhaustive") => Done
       /\ ("delete flipped" \in log /\ aligner = "rtf_exhaustive" /\ srch.stage \in {1, 2})
            => "flipped" \notin srch.refs

\* rtf_slow_exhaustive scored candidates of stage 2 against the mirrored reference of
\* the caller and returned an image without deleting it
C26_CallersFlipKept ==
    /\ GaveImage
    /\ aligner = "rtf_slow_exhaustive"
    /\ "flip" \in DOMAIN params
    /\ "flipped" \in srch.refs
    /\ "delete flipped" \notin log

\* C27: an image translational returns carries a transform, under xform.align2d or
\* under xform.align3d, that holds the translation found, whatever the dimensionality
\* of the moving image, a 1D image included.
C27_TransformCarried ==
    (GaveImage /\ aligner = "translational")
    => \E xf \in {result.a2d, result.a3d} :
         /\ xf.has
         /\ <<xf.tx, xf.ty, xf.tz>>
              = CurTrans(found.peak, ~IsNull(to), set_default(params, "intonly", 0))

\* translational moved a 1D image against a reference of its size by the peak found
\* and returned it with no transform under either key
C27_RowWithoutTransform ==
    /\ GaveImage
    /\ aligner = "translational"
    /\ Dims(this_img) = <<MaxExtent, 1, 1>>
    /\ ~IsNull(to)
    /\ found.peak = <<1, 0, 0>>
    /\ result.a2d = NoXf
    /\ result.a3d = NoXf

\* C28: whenever rtf_exhaustive has accepted its maxshift and unwraps, the outer
\* radius of each unwrap, of the shrunk images and at full resolution, is above the
\* inner radius 4.
C28_UnwrapRange ==
    (aligner = "rtf_exhaustive" /\ "unwrap" \in log)
    => /\ srch.maxshift >= 2
       /\ srch.ur2 > UnwrapInner
       /\ srch.ur > UnwrapInner

\* rtf_exhaustive took the maxshift 2 of a 16x16 image and unwrapped between the radii
\* 4 and 4 at full resolution, 4 and 1 on the shrunk images, and returned an image
C28_EmptyRing ==
    /\ GaveImage
    /\ aligner = "rtf_exhaustive"
    /\ this_img.ny = 16
    /\ "maxshift" \notin DOMAIN params
    /\ srch.maxshift = 2
    /\ srch.ur = UnwrapInner
    /\ srch.ur2 = 1

====
